---- MODULE Spec2Model ----
(***************************************************************************)
(* Model of data/src/history/metadata.rs: the per-scope metadata record,   *)
(* its value types, the selection functions, the path derivation and the  *)
(* load / save / update persistence operations over a file system shared   *)
(* by concurrently running calls.                                          *)
(*                                                                         *)
(* Option<T> is a sequence of length 0 (None) or 1 (Some).  An instant is  *)
(* a count of ticks; TicksPerMilli ticks make one millisecond.             *)
(***************************************************************************)
EXTENDS Integers, Sequences, FiniteSets, TLC

\* ------------------------------------------------------------- bounds
MaxTime == 2
TicksPerMilli == 2
MaxMsgs == 1
MaxTypes == 3
MaxCalls == 3
MaxOpen == 1
MaxFaults == 1
MaxScan == 2

Instants == 0..MaxTime
Tasks == {1, 2}

\* ------------------------------------------------------------- Option
None == <<>>
Some(x) == <<x>>
IsSome(o) == Len(o) = 1

\* ------------------------------------------------------------- scopes
Server(s) == [tag |-> "Server", server |-> s, target |-> ""]
Channel(s, c) == [tag |-> "Channel", server |-> s, target |-> c]
Query(s, n) == [tag |-> "Query", server |-> s, target |-> n]
Logs == [tag |-> "Logs", server |-> "", target |-> ""]
Highlights == [tag |-> "Highlights", server |-> "", target |-> ""]

Servers == {"logs"}
Channels == {"#a"}
Nicks == {"a"}

Kind ==
    {Server(s) : s \in Servers}
        \cup {Channel(s, c) : s \in Servers, c \in Channels}
        \cup {Query(s, n) : s \in Servers, n \in Nicks}
        \cup {Logs, Highlights}

\* The composite name of a scope (the match in path).
name(kind) ==
    CASE kind.tag = "Server" -> kind.server \o "-metadata"
      [] kind.tag = "Channel" -> kind.server \o "channel" \o kind.target \o "-metadata"
      [] kind.tag = "Query" -> kind.server \o "nickname" \o kind.target \o "-metadata"
      [] kind.tag = "Logs" -> "logs-metadata"
      [] kind.tag = "Highlights" -> "highlights-metadata"

\* seahash::hash, taken to be injective on the names it is given: the
\* decimal rendering of the hash is a text that determines the name.
seahash(n) == "h(" \o n \o ")"

\* path: the file of a scope, inside the resolved directory.
path(kind) == seahash(name(kind)) \o ".json"

Paths == {path(k) : k \in Kind}

\* ------------------------------------------------------------- values
MessageReferences == [timestamp : Instants, id : {None, Some("abc")}]

Metadata ==
    [read_marker : {None} \cup {Some(t) : t \in Instants},
     last_triggers_unread : {None} \cup {Some(t) : t \in Instants},
     chathistory_references : {None} \cup {Some(r) : r \in MessageReferences}]

\* Metadata::default()
DefaultMetadata ==
    [read_marker |-> None, last_triggers_unread |-> None,
     chathistory_references |-> None]

\* A text that keeps the whole milliseconds only.
ToRfc3339Millis(t) == [millis |-> t \div TicksPerMilli, sub |-> 0]

\* chrono's serde text of a DateTime<Utc>: RFC 3339 with the whole
\* milliseconds and the digits below the millisecond that the instant has.
ToRfc3339(t) == [millis |-> t \div TicksPerMilli, sub |-> t % TicksPerMilli]
ParseRfc3339(s) == s.millis * TicksPerMilli + s.sub

SerInstant(o) == IF IsSome(o) THEN Some(ToRfc3339(o[1])) ELSE None
DeInstant(o) == IF IsSome(o) THEN Some(ParseRfc3339(o[1])) ELSE None

SerReferences(o) ==
    IF IsSome(o)
    THEN Some([timestamp |-> ToRfc3339(o[1].timestamp), id |-> o[1].id])
    ELSE None
DeReferences(o) ==
    IF IsSome(o)
    THEN Some([timestamp |-> ParseRfc3339(o[1].timestamp), id |-> o[1].id])
    ELSE None

\* serde_json::to_vec(&Metadata): the bytes of the JSON object.
to_vec(m) ==
    [json |-> TRUE,
     doc |-> [read_marker |-> SerInstant(m.read_marker),
              last_triggers_unread |-> SerInstant(m.last_triggers_unread),
              chathistory_references |-> SerReferences(m.chathistory_references)]]

\* Bytes that do not parse as the schema (a partially written file).
Garbage == [json |-> FALSE, doc |-> to_vec(DefaultMetadata).doc]

\* serde_json::from_slice(&bytes).unwrap_or_default()
from_slice(bytes) ==
    IF bytes.json
    THEN [read_marker |-> DeInstant(bytes.doc.read_marker),
          last_triggers_unread |-> DeInstant(bytes.doc.last_triggers_unread),
          chathistory_references |-> DeReferences(bytes.doc.chathistory_references)]
    ELSE DefaultMetadata

\* ------------------------------------------------------------- references
\* isupport::MessageReferenceType and lists of them, in order of preference.
MessageReferenceType == {"MessageId", "Timestamp"}

\* isupport::MessageReference: MessageId(id), Timestamp(instant) or None.
RefMessageId(id) == [tag |-> "MessageId", id |-> Some(id), timestamp |-> None]
RefTimestamp(t) == [tag |-> "Timestamp", id |-> None, timestamp |-> Some(t)]
RefNone == [tag |-> "None", id |-> None, timestamp |-> None]

\* MessageReferences::message_reference: the loop over the list from its
\* i-th entry on, and the marker returned after the loop.
RECURSIVE message_reference_from(_, _, _)
message_reference_from(self, types, i) ==
    IF i > Len(types) THEN RefNone
    ELSE IF types[i] = "MessageId"
    THEN IF IsSome(self.id) THEN RefMessageId(self.id[1])
         ELSE message_reference_from(self, types, i + 1)
    ELSE RefTimestamp(self.timestamp)

\* A selection that ranks the kinds instead of following the list: the
\* message id whenever the list asks for it and it is there.
message_reference_by_kind(self, message_reference_types) ==
    IF IsSome(self.id)
        /\ \E i \in 1..Len(message_reference_types) :
               message_reference_types[i] = "MessageId"
    THEN RefMessageId(self.id[1])
    ELSE message_reference_from(self, message_reference_types, 1)

message_reference(self, message_reference_types) ==
    message_reference_from(self, message_reference_types, 1)

\* A derived equality: every field is compared.
eq_derived(self, other) == self = other

\* PartialEq for MessageReferences.
eq(self, other) == self.timestamp = other.timestamp

\* Ord for DateTime<Utc>, on instants.
CmpInstant(x, y) == IF x < y THEN "Less" ELSE IF x = y THEN "Equal" ELSE "Greater"

\* Ord for MessageReferences.
cmp(self, other) == CmpInstant(self.timestamp, other.timestamp)

\* PartialOrd for MessageReferences.
partial_cmp(self, other) == Some(cmp(self, other))

\* ------------------------------------------------------------- messages
\* A Message as far as this module reads it: server_time, the two
\* predicates and what references() returns.
Message(t, tu, cr, id) ==
    [server_time |-> t, triggers_unread |-> tu, can_reference |-> cr,
     references |-> [timestamp |-> t, id |-> id]]

Messages == {Message(1, TRUE, TRUE, Some("abc"))}

RECURSIVE SeqsUpTo(_, _)
SeqsUpTo(S, n) ==
    IF n = 0 THEN {<<>>}
    ELSE LET shorter == SeqsUpTo(S, n - 1)
         IN shorter \cup {Append(s, x) : s \in shorter, x \in S}

MessageLists == SeqsUpTo(Messages, MaxMsgs)

\* message.target.source(): internal status, internal logs, anything else.
Sources == {"Status", "Logs", "Other"}
MessageFrom(source, m) ==
    [server_time |-> m.server_time, triggers_unread |-> m.triggers_unread,
     can_reference |-> m.can_reference, references |-> m.references,
     source |-> source]

\* The messages the selection functions are applied to, and their lists.
SourcedMessages ==
    {MessageFrom(src, Message(t, tu, cr, id)) :
        src \in Sources, t \in Instants, tu \in BOOLEAN, cr \in BOOLEAN,
        id \in {None, Some("abc")}}
ScanLists == SeqsUpTo(SourcedMessages, MaxScan)
TypeLists == SeqsUpTo(MessageReferenceType, MaxTypes)

\* messages.iter().rev().find(pred), over the sequence of the predicate's
\* values: the index of the last message that satisfies it, 0 when none does.
RECURSIVE RevFind(_, _)
RevFind(hits, i) ==
    IF i = 0 THEN 0
    ELSE IF hits[i] THEN i
    ELSE RevFind(hits, i - 1)

\* The predicate of ReadMarker::latest's find.
Eligible(message) ==
    CASE message.source = "Status" -> FALSE
      [] message.source = "Logs" -> TRUE
      [] OTHER -> TRUE

\* A scan from the oldest message: the first eligible one.
latest_from_front(messages) ==
    LET hits == {j \in 1..Len(messages) : Eligible(messages[j])}
    IN IF hits = {} THEN None
       ELSE Some(messages[CHOOSE j \in hits : \A k \in hits : j <= k].server_time)

\* ReadMarker::latest.
latest(messages) ==
    LET i == RevFind([j \in 1..Len(messages) |-> Eligible(messages[j])],
                     Len(messages))
    IN IF i = 0 THEN None ELSE Some(messages[i].server_time)

\* A selection by time: the references of the newest message that can be
\* referenced.
latest_can_reference_by_time(messages) ==
    LET hits == {j \in 1..Len(messages) : messages[j].can_reference}
    IN IF hits = {} THEN None
       ELSE Some(messages[CHOOSE j \in hits : \A k \in hits :
                    \/ messages[j].server_time > messages[k].server_time
                    \/ messages[j].server_time = messages[k].server_time /\ j >= k
                ].references)

latest_triggers_unread(messages) ==
    LET i == RevFind([j \in 1..Len(messages) |-> messages[j].triggers_unread],
                     Len(messages))
    IN IF i = 0 THEN None ELSE Some(messages[i].server_time)

latest_can_reference(messages) ==
    LET i == RevFind([j \in 1..Len(messages) |-> messages[j].can_reference],
                     Len(messages))
    IN IF i = 0 THEN None ELSE Some(messages[i].references)

\* ------------------------------------------------------------- state
VARIABLES
    files,     \* the metadata directory: path -> Option<bytes>
    task,      \* per task, the save or update call it has in progress
    returned,  \* the call that returned last, with what it did
    open,      \* the scopes the client makes calls on
    now,       \* the number of calls made so far
    faults,    \* the number of I/O failures so far
    mref,      \* a message_reference call: the value, the list, the result
    scan,      \* a message list and what the selection functions return on it
    pair       \* two MessageReferences and how they compare

vars == <<files, task, returned, open, now, faults, mref, scan, pair>>

\* What a returned call keeps of the call that returned before it, when that
\* call was on the same scope.
NoPred ==
    [op |-> "none", kind |-> Logs, rm |-> None, result |-> "none", wrote |-> FALSE,
     read |-> "none", loaded |-> DefaultMetadata, seq |-> 0]
PredOf(c) ==
    [op |-> c.op, kind |-> c.kind, rm |-> c.rm, result |-> c.result, wrote |-> c.wrote,
     read |-> c.read, loaded |-> c.loaded, seq |-> c.seq]

NoCall ==
    [pc |-> "idle", op |-> "none", kind |-> Logs, rm |-> None, msgs |-> <<>>,
     bytes |-> Garbage, read |-> "none", loaded |-> DefaultMetadata,
     result |-> "none", dirFailed |-> FALSE, writeFailed |-> FALSE,
     wrote |-> FALSE, seq |-> 0, overlapped |-> FALSE, before |-> None,
     after |-> None, pred |-> NoPred]

\* No message_reference call is being looked at.
NotCalled == [tag |-> "NotCalled", id |-> None, timestamp |-> None]
NoReference ==
    [self |-> [timestamp |-> 0, id |-> None], types |-> <<>>, out |-> NotCalled]

\* No selection and no comparison is being looked at.  A result not yet
\* returned is <<>>, a returned result r is <<r>>.
NoScan == [messages |-> <<>>, latest |-> <<>>, triggers_unread |-> <<>>,
           can_reference |-> <<>>]
NoPair == [a |-> [timestamp |-> 0, id |-> None], b |-> [timestamp |-> 0, id |-> None],
           eq |-> <<>>, partial_cmp |-> <<>>]

Init ==
    /\ files = [p \in Paths |-> None]
    /\ task = [t \in Tasks |-> NoCall]
    /\ returned = NoCall
    /\ open \in {S \in SUBSET Kind : Cardinality(S) \in 1..MaxOpen}
    /\ now = 0
    /\ faults = 0
    /\ mref = NoReference
    /\ scan = NoScan
    /\ pair = NoPair

\* An I/O step either works or, while failures remain to be had, fails.
Outcomes(failures) == {"ok"} \cup (IF faults < MaxFaults THEN failures ELSE {})
Fault(outcome) == faults' = IF outcome = "ok" THEN faults ELSE faults + 1

\* What fs::read finds at path p: no file, a failed read, bytes that do not
\* parse, or bytes that parse.
ReadStatus(p, outcome) ==
    IF files[p] = None THEN "missing"
    ELSE IF outcome = "read" THEN "unreadable"
    ELSE IF ~files[p][1].json THEN "garbage"
    ELSE "parsed"

\* A load that passes the parse error on instead of defaulting.
load_strict(kind, outcome) ==
    LET st == ReadStatus(path(kind), outcome)
    IN IF outcome = "dir" \/ st = "garbage"
       THEN [ok |-> FALSE, read |-> st, metadata |-> DefaultMetadata]
       ELSE IF st \in {"missing", "unreadable"}
       THEN [ok |-> TRUE, read |-> st, metadata |-> DefaultMetadata]
       ELSE [ok |-> TRUE, read |-> st, metadata |-> from_slice(files[path(kind)][1])]

\* A load that defaults when the directory cannot be resolved.
load_lenient(kind, outcome) ==
    LET st == ReadStatus(path(kind), outcome)
    IN IF outcome = "dir" \/ st \in {"missing", "unreadable"}
       THEN [ok |-> TRUE, read |-> st, metadata |-> DefaultMetadata]
       ELSE [ok |-> TRUE, read |-> st, metadata |-> from_slice(files[path(kind)][1])]

\* A load that passes the read error on: fs::read(path).await?.
load_propagating(kind, outcome) ==
    LET st == ReadStatus(path(kind), outcome)
    IN IF outcome = "dir" \/ st = "unreadable"
       THEN [ok |-> FALSE, read |-> st, metadata |-> DefaultMetadata]
       ELSE IF st = "missing"
       THEN [ok |-> TRUE, read |-> st, metadata |-> DefaultMetadata]
       ELSE [ok |-> TRUE, read |-> st, metadata |-> from_slice(files[path(kind)][1])]

\* load, given how dir_path() and fs::read come out.
load(kind, outcome) ==
    LET st == ReadStatus(path(kind), outcome)
    IN IF outcome = "dir"
       THEN [ok |-> FALSE, read |-> "none", metadata |-> DefaultMetadata]
       ELSE IF st \in {"missing", "unreadable"}
       THEN [ok |-> TRUE, read |-> st, metadata |-> DefaultMetadata]
       ELSE [ok |-> TRUE, read |-> st, metadata |-> from_slice(files[path(kind)][1])]

\* The failures a load can meet: directory resolution, and the read of a
\* file that exists.
LoadOutcomes(kind) ==
    Outcomes({"dir"} \cup (IF files[path(kind)] = None THEN {} ELSE {"read"}))

\* A save that leaves the read marker out of the record.
SaveRecordNoMarker(messages, read_marker) ==
    [read_marker |-> None,
     last_triggers_unread |-> latest_triggers_unread(messages),
     chathistory_references |-> latest_can_reference(messages)]

\* The record save writes.
SaveRecord(messages, read_marker) ==
    [read_marker |-> read_marker,
     last_triggers_unread |-> latest_triggers_unread(messages),
     chathistory_references |-> latest_can_reference(messages)]

\* An update without the guard: it always writes.
GuardNever(metadata, read_marker) == FALSE

\* The guard with a strict comparison: an equal marker is written again.
GuardStrict(metadata, read_marker) ==
    IsSome(metadata.read_marker) /\ metadata.read_marker[1] > read_marker

\* The comparison of the guard turned around.
GuardReversed(metadata, read_marker) ==
    IsSome(metadata.read_marker) /\ metadata.read_marker[1] <= read_marker

\* A guard without the comparison: a stored marker is never replaced.
GuardPresent(metadata, read_marker) == IsSome(metadata.read_marker)

\* update's guard: the stored marker is present and not older than the
\* candidate.
Guard(metadata, read_marker) ==
    IsSome(metadata.read_marker) /\ metadata.read_marker[1] >= read_marker

\* An update that carries over only last_triggers_unread.
UpdateRecordNoReferences(metadata, read_marker) ==
    [read_marker |-> Some(read_marker),
     last_triggers_unread |-> metadata.last_triggers_unread,
     chathistory_references |-> None]

\* An update that carries over only chathistory_references.
UpdateRecordNoUnread(metadata, read_marker) ==
    [read_marker |-> Some(read_marker),
     last_triggers_unread |-> None,
     chathistory_references |-> metadata.chathistory_references]

\* The record update writes.
UpdateRecord(metadata, read_marker) ==
    [read_marker |-> Some(read_marker),
     last_triggers_unread |-> metadata.last_triggers_unread,
     chathistory_references |-> metadata.chathistory_references]

Busy == {t \in Tasks : task[t].pc # "idle"}

Begin(op, kind, rm, msgs) ==
    [NoCall EXCEPT !.op = op, !.kind = kind, !.rm = rm, !.msgs = msgs,
                   !.seq = now + 1, !.overlapped = Busy # {},
                   !.before = files[path(kind)]]

\* A call is made on an open scope, by the first task that is free (the
\* tasks are interchangeable), while calls remain to be made.  Calls on
\* different files do not read or write anything in common, so a call is
\* begun during another one only when both are on the same file.
CanCall(t, kind) ==
    /\ task[t].pc = "idle"
    /\ \A u \in Tasks : u < t => task[u].pc # "idle"
    /\ \A u \in Busy : path(task[u].kind) = path(kind)
    /\ kind \in open
    /\ now < MaxCalls

\* The call c returns: it becomes the last returned call.
Returns(c, fs) ==
    returned' = [c EXCEPT !.pc = "done", !.after = fs[path(c.kind)],
                          !.pred = IF returned.kind = c.kind /\ returned.op # "none"
                                   THEN PredOf(returned) ELSE NoPred]

\* A call that begins while others are in progress overlaps them.
Overlap(t) == [u \in Tasks |-> IF u # t /\ task[u].pc # "idle"
                               THEN [task[u] EXCEPT !.overlapped = TRUE]
                               ELSE task[u]]

\* load(kind): resolve the path, read, parse or default.
Load(t, kind) ==
    /\ CanCall(t, kind)
    /\ \E outcome \in LoadOutcomes(kind) :
        LET r == load(kind, outcome)
        IN /\ Returns([Begin("load", kind, None, <<>>) EXCEPT
                          !.read = r.read, !.loaded = r.metadata,
                          !.result = IF r.ok THEN "ok" ELSE "err",
                          !.dirFailed = (outcome = "dir")], files)
           /\ Fault(outcome)
    /\ task' = Overlap(t)
    /\ now' = now + 1
    /\ UNCHANGED <<files, open, mref, scan, pair>>

\* save, up to its first await: the record is built and serialized.
SaveCall(t, kind, messages, read_marker) ==
    /\ CanCall(t, kind)
    /\ task' = [Overlap(t) EXCEPT ![t] =
           [Begin("save", kind, read_marker, messages) EXCEPT
               !.pc = "write",
               !.bytes = to_vec(SaveRecord(messages, read_marker))]]
    /\ now' = now + 1
    /\ UNCHANGED <<files, returned, open, faults, mref, scan, pair>>

\* update, up to the await of its write: load, the guard, the new record.
UpdateLoad(t, kind, read_marker) ==
    /\ CanCall(t, kind)
    /\ \E outcome \in LoadOutcomes(kind) :
        LET r == load(kind, outcome)
            metadata == r.metadata
            c == [Begin("update", kind, Some(read_marker), <<>>) EXCEPT
                     !.read = r.read, !.loaded = metadata]
        IN /\ Fault(outcome)
           /\ IF ~r.ok
              THEN /\ Returns([c EXCEPT !.result = "err",
                                         !.dirFailed = (outcome = "dir")], files)
                   /\ task' = Overlap(t)
              ELSE IF Guard(metadata, read_marker)
              THEN /\ Returns([c EXCEPT !.result = "ok"], files)
                   /\ task' = Overlap(t)
              ELSE /\ task' = [Overlap(t) EXCEPT ![t] =
                          [c EXCEPT !.pc = "write",
                                    !.bytes = to_vec(UpdateRecord(metadata, read_marker))]]
                   /\ UNCHANGED returned
    /\ now' = now + 1
    /\ UNCHANGED <<files, open, mref, scan, pair>>

\* path(kind).await? then fs::write(path, &bytes).await? then Ok(()).  A
\* failed write leaves the file as it was or partially written.
PathAndWrite(t) ==
    LET p == path(task[t].kind)
        c == task[t]
    IN \E outcome \in Outcomes({"dir", "denied", "partial"}) :
        /\ Fault(outcome)
        /\ files' = CASE outcome = "ok" -> [files EXCEPT ![p] = Some(c.bytes)]
                      [] outcome = "partial" -> [files EXCEPT ![p] = Some(Garbage)]
                      [] OTHER -> files
        /\ Returns([c EXCEPT !.result = IF outcome = "ok" THEN "ok" ELSE "err",
                             !.dirFailed = (outcome = "dir"),
                             !.writeFailed = (outcome \in {"denied", "partial"}),
                             !.wrote = (outcome = "ok")], files')
        /\ task' = [task EXCEPT ![t] = NoCall]

SaveWrite(t) ==
    /\ task[t].pc = "write" /\ task[t].op = "save"
    /\ PathAndWrite(t)
    /\ UNCHANGED <<open, now, mref, scan, pair>>

UpdateWrite(t) ==
    /\ task[t].pc = "write" /\ task[t].op = "update"
    /\ PathAndWrite(t)
    /\ UNCHANGED <<open, now, mref, scan, pair>>

ReadMarkers == {None} \cup {Some(i) : i \in Instants}

Next ==
    \E t \in Tasks :
        \/ \E k \in Kind : Load(t, k)
        \/ \E k \in Kind, ms \in MessageLists, rm \in ReadMarkers : SaveCall(t, k, ms, rm)
        \/ \E k \in Kind, rm \in Instants : UpdateLoad(t, k, rm)
        \/ SaveWrite(t)
        \/ UpdateWrite(t)

Spec == Init /\ [][Next]_vars

\* Calls made one after the other: a call begins only when none is in progress.
SeqNext ==
    \E t \in Tasks :
        \/ \E k \in Kind : Busy = {} /\ Load(t, k)
        \/ \E k \in Kind, ms \in MessageLists, rm \in ReadMarkers :
              Busy = {} /\ SaveCall(t, k, ms, rm)
        \/ \E k \in Kind, rm \in Instants : Busy = {} /\ UpdateLoad(t, k, rm)
        \/ SaveWrite(t)
        \/ UpdateWrite(t)

SeqSpec == Init /\ [][SeqNext]_vars

\* The pure functions, applied to every input within the bounds.
FnInit ==
    /\ files = [p \in Paths |-> None]
    /\ task = [t \in Tasks |-> NoCall]
    /\ returned = NoCall
    /\ open = {}
    /\ now = 0
    /\ faults = 0
    /\ mref \in [self : MessageReferences, types : TypeLists, out : {NotCalled}]
    /\ scan = NoScan
    /\ pair = NoPair

MessageReference ==
    /\ mref.out = NotCalled
    /\ mref' = [mref EXCEPT !.out = message_reference(mref.self, mref.types)]
    /\ UNCHANGED <<files, task, returned, open, now, faults, scan, pair>>

FnNext == MessageReference

FnSpec == FnInit /\ [][FnNext]_vars

\* The selection functions, applied to every message list within the bounds.
Idle ==
    /\ files = [p \in Paths |-> None]
    /\ task = [t \in Tasks |-> NoCall]
    /\ returned = NoCall
    /\ open = {}
    /\ now = 0
    /\ faults = 0

ScanInit ==
    /\ Idle
    /\ mref = NoReference
    /\ scan \in [messages : ScanLists, latest : {<<>>}, triggers_unread : {<<>>},
                  can_reference : {<<>>}]
    /\ pair = NoPair

Latest ==
    /\ scan.latest = <<>>
    /\ scan' = [scan EXCEPT !.latest = <<latest(scan.messages)>>]
    /\ UNCHANGED <<files, task, returned, open, now, faults, mref, pair>>

LatestTriggersUnread ==
    /\ scan.triggers_unread = <<>>
    /\ scan' = [scan EXCEPT !.triggers_unread = <<latest_triggers_unread(scan.messages)>>]
    /\ UNCHANGED <<files, task, returned, open, now, faults, mref, pair>>

LatestCanReference ==
    /\ scan.can_reference = <<>>
    /\ scan' = [scan EXCEPT !.can_reference = <<latest_can_reference(scan.messages)>>]
    /\ UNCHANGED <<files, task, returned, open, now, faults, mref, pair>>

ScanNext == Latest \/ LatestTriggersUnread \/ LatestCanReference

ScanSpec == ScanInit /\ [][ScanNext]_vars

\* The comparisons, applied to every pair of MessageReferences.
PairInit ==
    /\ Idle
    /\ mref = NoReference
    /\ scan = NoScan
    /\ pair \in [a : MessageReferences, b : MessageReferences, eq : {<<>>},
                  partial_cmp : {<<>>}]

Eq ==
    /\ pair.eq = <<>>
    /\ pair' = [pair EXCEPT !.eq = <<eq(pair.a, pair.b)>>]
    /\ UNCHANGED <<files, task, returned, open, now, faults, mref, scan>>

PartialCmp ==
    /\ pair.partial_cmp = <<>>
    /\ pair' = [pair EXCEPT !.partial_cmp = <<partial_cmp(pair.a, pair.b)>>]
    /\ UNCHANGED <<files, task, returned, open, now, faults, mref, scan>>

PairNext == Eq \/ PartialCmp

PairSpec == PairInit /\ [][PairNext]_vars

\* ------------------------------------------------------------- properties
\* What a file holds: a record that parses, and its read marker.
Intact(c) == IsSome(c) /\ c[1].json
RecordOf(c) == IF Intact(c) THEN from_slice(c[1]) ELSE DefaultMetadata
Marker(c) == RecordOf(c).read_marker

\* Marker a is not older than marker b, and present when b is.
NotOlder(a, b) == IsSome(b) => (IsSome(a) /\ a[1] >= b[1])

\* A call returns in this step.
JustReturned == returned'.seq # returned.seq

\* The call that returned before this one was a successful update of the
\* same scope.
AfterUpdate ==
    /\ returned.op = "update" /\ returned.result = "ok"
    /\ returned.kind = returned'.kind

\* C1 as stated: calls made one after the other; a successful update never
\* leaves a read marker older than the one stored before it, and
\* update(T1) then update(T2) with T2 < T1 leaves the stored marker at T1.
C1_AsStated ==
    [][(JustReturned /\ returned'.op = "update" /\ returned'.result = "ok")
        => /\ NotOlder(Marker(returned'.after), Marker(returned'.before))
           /\ (AfterUpdate /\ returned'.rm[1] < returned.rm[1])
                => Marker(returned'.after) = returned.rm]_vars

\* C1 amended: calls made one after the other; a successful update whose
\* read of the file did not fail never leaves a read marker older than the
\* one stored before it, and update(T1) then update(T2) with T2 < T1 leaves
\* the marker as the first update left it, which is T1 when that update
\* wrote.
C1_Monotonic ==
    [][(JustReturned /\ returned'.op = "update" /\ returned'.result = "ok"
            /\ returned'.read # "unreadable")
        => /\ NotOlder(Marker(returned'.after), Marker(returned'.before))
           /\ (AfterUpdate /\ returned'.rm[1] < returned.rm[1])
                => /\ Marker(returned'.after) = Marker(returned.after)
                   /\ returned.wrote => Marker(returned'.after) = returned.rm]_vars

\* update(T1) wrote T1, then update(T2) with T2 < T1 read the file and
\* returned, and T1 is still stored.
C1_Witness ==
    /\ returned.op = "update" /\ returned.result = "ok" /\ returned.read = "parsed"
    /\ ~returned.overlapped
    /\ returned.pred.op = "update" /\ returned.pred.result = "ok" /\ returned.pred.wrote
    /\ returned.rm[1] < returned.pred.rm[1]
    /\ Marker(returned.after) = returned.pred.rm
    /\ Marker(files[path(returned.kind)]) = returned.pred.rm

\* C2 as stated: calls made one after the other, every read succeeding; no
\* write by save or update replaces a stored read marker with an older or
\* an absent one.
C2_AsStated ==
    [][(JustReturned /\ returned'.wrote /\ returned'.read # "unreadable")
        => NotOlder(Marker(returned'.after), Marker(returned'.before))]_vars

\* C2 amended: calls made one after the other; only update applies the
\* rule: no write by an update whose read did not fail replaces a stored
\* read marker with an older or an absent one, while a save stores the
\* marker it is given, be it older than the stored one or absent.
C2_UpdateOnly ==
    [][(JustReturned /\ returned'.wrote)
        => /\ (returned'.op = "update" /\ returned'.read # "unreadable")
                => NotOlder(Marker(returned'.after), Marker(returned'.before))
           /\ returned'.op = "save" => Marker(returned'.after) = returned'.rm]_vars

\* A save has replaced a stored read marker with an absent one.
C2_Witness ==
    /\ returned.op = "save" /\ returned.wrote /\ ~returned.overlapped
    /\ IsSome(Marker(returned.before))
    /\ returned.rm = None
    /\ Marker(files[path(returned.kind)]) = None

\* C3: update reads, compares and writes with no mutual exclusion.  An
\* update that wrote a candidate older than the one the update returning
\* just before it had written did so only by overlapping another call, and
\* its older candidate is then what is stored.
C3_LostUpdate ==
    (/\ returned.op = "update" /\ returned.result = "ok" /\ returned.wrote
     /\ returned.read # "unreadable"
     /\ returned.pred.op = "update" /\ returned.pred.result = "ok"
     /\ returned.pred.wrote
     /\ returned.rm[1] < returned.pred.rm[1])
    => /\ returned.overlapped
       /\ Marker(returned.after) = returned.rm

\* Two overlapping updates of one scope, with candidates T1 > T2 both newer
\* than the stored marker, have read the same record; the one with T2
\* wrote last; both have returned Ok and T2 is stored.
C3_Witness ==
    /\ returned.op = "update" /\ returned.result = "ok" /\ returned.wrote
    /\ returned.overlapped
    /\ returned.pred.op = "update" /\ returned.pred.result = "ok" /\ returned.pred.wrote
    /\ returned.read = "parsed" /\ returned.pred.read = "parsed"
    /\ returned.loaded = returned.pred.loaded
    /\ IsSome(returned.loaded.read_marker)
    /\ returned.loaded.read_marker[1] < returned.rm[1]
    /\ returned.rm[1] < returned.pred.rm[1]
    /\ Busy = {}
    /\ Marker(files[path(returned.kind)]) = returned.rm

\* The stored read marker is absent or older than the candidate.
WriteBranch(c) == ~(IsSome(Marker(c.before)) /\ Marker(c.before)[1] >= c.rm[1])

\* C4 as stated: calls made one after the other; an update that writes,
\* the stored marker being absent or older than its candidate, writes the
\* last_triggers_unread and chathistory_references stored before the call
\* and its candidate as read_marker.
C4_AsStated ==
    [][(JustReturned /\ returned'.op = "update" /\ returned'.wrote
            /\ WriteBranch(returned'))
        => /\ RecordOf(returned'.after).last_triggers_unread
                = RecordOf(returned'.before).last_triggers_unread
           /\ RecordOf(returned'.after).chathistory_references
                = RecordOf(returned'.before).chathistory_references
           /\ Marker(returned'.after) = returned'.rm]_vars

\* C4 amended: calls made one after the other; an update that writes,
\* writes the last_triggers_unread and chathistory_references it loaded
\* and its candidate as read_marker, and what it loaded is the record
\* stored before the call unless its read of the file failed.
C4_Frame ==
    [][(JustReturned /\ returned'.op = "update" /\ returned'.wrote)
        => /\ RecordOf(returned'.after).last_triggers_unread
                = returned'.loaded.last_triggers_unread
           /\ RecordOf(returned'.after).chathistory_references
                = returned'.loaded.chathistory_references
           /\ Marker(returned'.after) = returned'.rm
           /\ returned'.read # "unreadable"
                => returned'.loaded = RecordOf(returned'.before)]_vars

\* An update has replaced the read marker of a stored record that holds
\* both derived fields, and both are stored as they were.
C4_Witness ==
    /\ returned.op = "update" /\ returned.wrote /\ ~returned.overlapped
    /\ returned.read = "parsed"
    /\ IsSome(RecordOf(returned.before).last_triggers_unread)
    /\ IsSome(RecordOf(returned.before).chathistory_references)
    /\ RecordOf(files[path(returned.kind)]).last_triggers_unread
            = RecordOf(returned.before).last_triggers_unread
    /\ RecordOf(files[path(returned.kind)]).chathistory_references
            = RecordOf(returned.before).chathistory_references
    /\ Marker(files[path(returned.kind)]) # Marker(returned.before)

\* C5 as stated: calls made one after the other; the second of two
\* successful update(scope, T) writes nothing and leaves the file as the
\* first left it.
C5_AsStated ==
    [][(JustReturned /\ returned'.op = "update" /\ returned'.result = "ok"
            /\ AfterUpdate /\ returned'.rm = returned.rm)
        => /\ ~returned'.wrote
           /\ returned'.after = returned.after]_vars

\* C5 amended: calls made one after the other; the second of two
\* successful update(scope, T), when its read of the file does not fail,
\* takes the guard branch, writes nothing and leaves the file as the first
\* left it.
C5_Idempotent ==
    [][(JustReturned /\ returned'.op = "update" /\ returned'.result = "ok"
            /\ AfterUpdate /\ returned'.rm = returned.rm
            /\ returned'.read # "unreadable")
        => /\ ~returned'.wrote
           /\ IsSome(returned'.loaded.read_marker)
           /\ returned'.loaded.read_marker[1] >= returned'.rm[1]
           /\ returned'.after = returned.after]_vars

\* update(scope, T) wrote, and a second update(scope, T) returned Ok
\* without writing.
C5_Witness ==
    /\ returned.op = "update" /\ returned.result = "ok" /\ ~returned.wrote
    /\ ~returned.overlapped /\ returned.read = "parsed"
    /\ returned.pred.op = "update" /\ returned.pred.result = "ok" /\ returned.pred.wrote
    /\ returned.pred.rm = returned.rm
    /\ files[path(returned.kind)] = returned.before

\* C6: a load returns Ok whenever the directory resolves: the default
\* record when there is no file, when the read fails and when the bytes do
\* not parse, the stored record otherwise.
C6_LoadDefaults ==
    returned.op = "load"
    => /\ ~returned.dirFailed => returned.result = "ok"
       /\ returned.result = "ok"
            => /\ returned.before = None => returned.loaded = DefaultMetadata
               /\ returned.read = "unreadable" => returned.loaded = DefaultMetadata
               /\ (IsSome(returned.before) /\ ~Intact(returned.before))
                    => returned.loaded = DefaultMetadata
               /\ (Intact(returned.before) /\ returned.read # "unreadable")
                    => returned.loaded = RecordOf(returned.before)

\* A load of a partially written file has returned Ok with the default
\* record.
C6_Witness ==
    /\ returned.op = "load" /\ returned.result = "ok"
    /\ IsSome(returned.before) /\ ~Intact(returned.before)
    /\ returned.read = "garbage"
    /\ returned.loaded = DefaultMetadata

\* The call that returned before this load was a successful save of the
\* same scope with a marker of whole milliseconds.
AfterSave ==
    /\ returned.op = "save" /\ returned.result = "ok"
    /\ returned.kind = returned'.kind
    /\ IsSome(returned.rm) /\ returned.rm[1] % TicksPerMilli = 0

\* The record a load after save(scope, msgs, Some(T)) is to return.
Saved(c) ==
    [read_marker |-> c.rm,
     last_triggers_unread |-> latest_triggers_unread(c.msgs),
     chathistory_references |-> latest_can_reference(c.msgs)]

\* C7 as stated: calls made one after the other; the load that follows a
\* successful save(scope, msgs, Some(T)), T of whole milliseconds, returns
\* T and the two values derived from msgs.
C7_AsStated ==
    [][(JustReturned /\ returned'.op = "load" /\ returned'.result = "ok"
            /\ AfterSave)
        => returned'.loaded = Saved(returned)]_vars

\* C7 amended: the same, for a load whose read of the file does not fail.
C7_RoundTrip ==
    [][(JustReturned /\ returned'.op = "load" /\ returned'.result = "ok"
            /\ AfterSave /\ returned'.read # "unreadable")
        => returned'.loaded = Saved(returned)]_vars

\* A load after a save of a marker and a message that sets both derived
\* fields has returned all three.
C7_Witness ==
    /\ returned.op = "load" /\ returned.result = "ok" /\ returned.read = "parsed"
    /\ ~returned.overlapped
    /\ returned.pred.op = "save" /\ returned.pred.result = "ok"
    /\ IsSome(returned.pred.rm) /\ returned.pred.rm[1] % TicksPerMilli = 0
    /\ returned.loaded.read_marker = returned.pred.rm
    /\ IsSome(returned.loaded.last_triggers_unread)
    /\ IsSome(returned.loaded.chathistory_references)

\* C8: a load returns an error exactly when the directory does not
\* resolve; a save or update returns an error whenever the directory does
\* not resolve or the write fails; and a save or update that fails to
\* resolve the directory changes no file.
C8_Errors ==
    [][JustReturned
        => /\ returned'.op = "load"
                => (returned'.result = "err" <=> returned'.dirFailed)
           /\ (returned'.op \in {"save", "update"}
                    /\ (returned'.dirFailed \/ returned'.writeFailed))
                => returned'.result = "err"
           /\ (returned'.op \in {"save", "update"} /\ returned'.dirFailed)
                => (files' = files /\ ~returned'.wrote)]_vars

\* An update of a stored record has failed to resolve the directory and
\* returned an error, and the record is as it was.
C8_Witness ==
    /\ returned.op = "update" /\ returned.dirFailed /\ returned.result = "err"
    /\ Intact(returned.before)
    /\ files[path(returned.kind)] = returned.before

\* C9: distinct scopes have distinct files, so a save or update of one
\* scope does not change what a load of any other scope returns.
C9_AsStated ==
    [][\A k \in Kind :
        (JustReturned /\ returned'.op \in {"save", "update"} /\ k # returned'.kind)
        => RecordOf(files'[path(k)]) = RecordOf(files[path(k)])]_vars

\* C10: message_reference returns the first kind of the list that the
\* value can satisfy, a MessageId entry being skipped when the id is
\* absent; the none marker exactly when the list has no Timestamp entry and
\* either no MessageId entry or the id is absent.
C10_ListOrder ==
    mref.out # NotCalled
    => LET types == mref.types
           CanSatisfy(i) == types[i] = "Timestamp" \/ IsSome(mref.self.id)
           sat == {i \in 1..Len(types) : CanSatisfy(i)}
           Has(ty) == \E i \in 1..Len(types) : types[i] = ty
       IN /\ sat = {} => mref.out = RefNone
          /\ sat # {} =>
                LET first == CHOOSE i \in sat : \A j \in sat : i <= j
                IN mref.out = IF types[first] = "MessageId"
                              THEN RefMessageId(mref.self.id[1])
                              ELSE RefTimestamp(mref.self.timestamp)
          /\ mref.out = RefNone
                <=> (~Has("Timestamp") /\ (~Has("MessageId") \/ mref.self.id = None))

\* [Timestamp, MessageId] on a value with an id has returned Timestamp.
C10_Witness ==
    /\ mref.types = <<"Timestamp", "MessageId">>
    /\ IsSome(mref.self.id)
    /\ mref.out = RefTimestamp(mref.self.timestamp)

\* The highest of a non-empty set of positions of a list.
Highest(P) == CHOOSE j \in P : \A k \in P : j >= k

\* C11: ReadMarker::latest returns the server_time of the message at the
\* highest position whose source is not internal status, whatever the
\* times of the other messages; none exactly when the list is empty or
\* every message is internal status.
C11_Latest ==
    scan.latest # <<>>
    => LET ms == scan.messages
           P == {j \in 1..Len(ms) : ms[j].source # "Status"}
       IN /\ P # {} => scan.latest[1] = Some(ms[Highest(P)].server_time)
          /\ scan.latest[1] = None
                <=> (ms = <<>> \/ \A j \in 1..Len(ms) : ms[j].source = "Status")

\* On two eligible messages, the older one carrying the later time, latest
\* has returned the time of the one at the higher position.
C11_Witness ==
    /\ scan.latest # <<>>
    /\ Len(scan.messages) = 2
    /\ scan.messages[1].source = "Logs"
    /\ scan.messages[2].source = "Other"
    /\ scan.messages[1].server_time > scan.messages[2].server_time
    /\ scan.latest[1] = Some(scan.messages[2].server_time)

\* C12: latest_triggers_unread returns the server_time of the message at
\* the highest position with triggers_unread() true, latest_can_reference
\* returns references() of the message at the highest position with
\* can_reference() true, and each returns none exactly when no message
\* satisfies its predicate.
C12_Selections ==
    LET ms == scan.messages
        TU == {j \in 1..Len(ms) : ms[j].triggers_unread}
        CR == {j \in 1..Len(ms) : ms[j].can_reference}
    IN /\ scan.triggers_unread # <<>>
            => /\ TU # {} => scan.triggers_unread[1] = Some(ms[Highest(TU)].server_time)
               /\ scan.triggers_unread[1] = None <=> TU = {}
       /\ scan.can_reference # <<>>
            => /\ CR # {} => scan.can_reference[1] = Some(ms[Highest(CR)].references)
               /\ scan.can_reference[1] = None <=> CR = {}

\* The two selections have picked different messages of one list: the
\* first, which alone triggers unread, and the second, which alone can be
\* referenced and carries the earlier time.
C12_Witness ==
    /\ Len(scan.messages) = 2
    /\ scan.messages[1].triggers_unread /\ ~scan.messages[2].triggers_unread
    /\ ~scan.messages[1].can_reference /\ scan.messages[2].can_reference
    /\ scan.messages[1].server_time > scan.messages[2].server_time
    /\ scan.triggers_unread = <<Some(scan.messages[1].server_time)>>
    /\ scan.can_reference = <<Some(scan.messages[2].references)>>

\* C13: equality and ordering of two MessageReferences are those of
\* their timestamps: values with equal timestamps and different ids
\* compare equal, and changing only the id of either value changes no
\* result.
C13_TimestampOnly ==
    LET a == pair.a
        b == pair.b
        Ids == {None, Some("abc")}
        order == IF a.timestamp < b.timestamp THEN "Less"
                 ELSE IF a.timestamp > b.timestamp THEN "Greater"
                 ELSE "Equal"
    IN /\ pair.eq # <<>>
            => /\ pair.eq[1] = (a.timestamp = b.timestamp)
               /\ \A i \in Ids, j \in Ids :
                     eq([a EXCEPT !.id = i], [b EXCEPT !.id = j]) = pair.eq[1]
       /\ pair.partial_cmp # <<>>
            => /\ pair.partial_cmp[1] = Some(order)
               /\ \A i \in Ids, j \in Ids :
                     partial_cmp([a EXCEPT !.id = i], [b EXCEPT !.id = j])
                        = pair.partial_cmp[1]

\* Two values with the same timestamp, one with an id and one without,
\* have compared equal.
C13_Witness ==
    /\ pair.a.timestamp = pair.b.timestamp
    /\ IsSome(pair.a.id) /\ pair.b.id = None
    /\ pair.eq = <<TRUE>>
    /\ pair.partial_cmp = <<Some("Equal")>>

\* An instant truncated to whole milliseconds.
Truncated(t) == t - (t % TicksPerMilli)

\* C14: the read marker is persisted at millisecond precision; a load
\* that follows a successful save(scope, msgs, Some(T)), T carrying a part
\* below the millisecond, and that reads and parses the file, returns
\* read_marker equal to T truncated to whole milliseconds, not T itself.
C14_AsStated ==
    [][(/\ JustReturned
        /\ returned'.op = "load" /\ returned'.result = "ok"
        /\ returned'.read = "parsed"
        /\ returned.op = "save" /\ returned.result = "ok"
        /\ returned.kind = returned'.kind
        /\ IsSome(returned.rm) /\ returned.rm[1] % TicksPerMilli # 0)
        => /\ returned'.loaded.read_marker = Some(Truncated(returned.rm[1]))
           /\ returned'.loaded.read_marker # returned.rm]_vars

\* C15: a save that overlaps an update is exposed to the update's gap
\* between read and write.  When an update has read, a save begun after
\* it has written, and the update has then written, both returning Ok,
\* the stored record is the update's candidate with the
\* last_triggers_unread and chathistory_references the update read (the
\* values stored before the save unless its read failed): nothing the
\* save wrote is left.
C15_SaveOverwritten ==
    (/\ returned.op = "update" /\ returned.result = "ok" /\ returned.wrote
     /\ returned.pred.op = "save" /\ returned.pred.result = "ok"
     /\ returned.pred.seq > returned.seq)
    => /\ returned.overlapped
       /\ RecordOf(returned.after)
            = [read_marker |-> returned.rm,
               last_triggers_unread |-> returned.loaded.last_triggers_unread,
               chathistory_references |-> returned.loaded.chathistory_references]
       /\ returned.read # "unreadable"
            => returned.loaded = RecordOf(returned.before)

\* An update has read a record with both derived fields, a save with
\* another read marker has then written, the update has written last;
\* both have returned Ok, the derived fields the update read are stored
\* and the save's read marker is not.
C15_Witness ==
    /\ returned.op = "update" /\ returned.result = "ok" /\ returned.wrote
    /\ returned.overlapped /\ returned.read = "parsed"
    /\ returned.pred.op = "save" /\ returned.pred.result = "ok" /\ returned.pred.wrote
    /\ returned.pred.seq > returned.seq
    /\ IsSome(returned.pred.rm) /\ returned.pred.rm # returned.rm
    /\ IsSome(returned.loaded.last_triggers_unread)
    /\ IsSome(returned.loaded.chathistory_references)
    /\ Busy = {}
    /\ RecordOf(files[path(returned.kind)]).last_triggers_unread
            = RecordOf(returned.before).last_triggers_unread
    /\ RecordOf(files[path(returned.kind)]).chathistory_references
            = RecordOf(returned.before).chathistory_references
    /\ Marker(files[path(returned.kind)]) # returned.pred.rm

\* The later of a stored marker, if present, and a candidate.
MaxMarker(stored, candidate) ==
    IF IsSome(stored) /\ stored[1] >= candidate[1] THEN stored ELSE candidate

\* C16 as stated: calls made one after the other; each successful update
\* of an intact record leaves the later of the stored marker and its
\* candidate stored, so that a series of them leaves the maximum, and an
\* update with a candidate equal to the stored marker writes nothing.
C16_AsStated ==
    [][(JustReturned /\ returned'.op = "update" /\ returned'.result = "ok"
            /\ Intact(returned'.before))
        => /\ Marker(returned'.after) = MaxMarker(Marker(returned'.before), returned'.rm)
           /\ Marker(returned'.before) = returned'.rm
                => (~returned'.wrote /\ files' = files)]_vars

\* C16 amended: the same, for updates whose read of the file does not
\* fail.
C16_Maximum ==
    [][(JustReturned /\ returned'.op = "update" /\ returned'.result = "ok"
            /\ Intact(returned'.before) /\ returned'.read # "unreadable")
        => /\ Marker(returned'.after) = MaxMarker(Marker(returned'.before), returned'.rm)
           /\ Marker(returned'.before) = returned'.rm
                => (~returned'.wrote /\ files' = files)]_vars

\* Of two successive updates of a record with a stored marker, the first
\* has written a later candidate and the second, with the same candidate,
\* has written nothing: the maximum is stored.
C16_Witness ==
    /\ returned.op = "update" /\ returned.result = "ok" /\ ~returned.wrote
    /\ ~returned.overlapped /\ returned.read = "parsed"
    /\ returned.pred.op = "update" /\ returned.pred.result = "ok" /\ returned.pred.wrote
    /\ returned.pred.read = "parsed"
    /\ IsSome(returned.pred.loaded.read_marker)
    /\ returned.pred.loaded.read_marker[1] < returned.pred.rm[1]
    /\ returned.rm = returned.pred.rm
    /\ Marker(files[path(returned.kind)])
            = MaxMarker(returned.pred.loaded.read_marker, returned.rm)

\* The file was missing, unreadable or unparsable when the call read it.
ReadNothing(c) == c.read \in {"missing", "unreadable", "garbage"}

\* The record of a candidate marker alone.
MarkerOnly(rm) ==
    [read_marker |-> rm, last_triggers_unread |-> None,
     chathistory_references |-> None]

\* C17 as stated: an update that finds the file missing, unreadable or
\* unparsable returns Ok and overwrites the file with the record of its
\* candidate and both derived fields absent, whatever was persisted
\* before.
C17_AsStated ==
    (returned.op = "update" /\ ReadNothing(returned))
    => /\ returned.result = "ok"
       /\ returned.wrote
       /\ RecordOf(returned.after) = MarkerOnly(returned.rm)

\* C17 amended: such an update treats the stored record as the default;
\* it returns Ok exactly when the directory resolution and the write that
\* follow do not fail, and it has then overwritten the file with the
\* record of its candidate and both derived fields absent, whatever was
\* persisted before.
C17_DefaultOnBadRead ==
    (returned.op = "update" /\ ReadNothing(returned))
    => /\ returned.loaded = DefaultMetadata
       /\ returned.result = "ok" <=> (~returned.dirFailed /\ ~returned.writeFailed)
       /\ returned.result = "ok"
            => /\ returned.wrote
               /\ RecordOf(returned.after) = MarkerOnly(returned.rm)

\* An update whose read of an intact record failed has returned Ok and
\* replaced a later stored marker and the stored derived fields with its
\* older candidate alone.
C17_Witness ==
    /\ returned.op = "update" /\ returned.result = "ok" /\ returned.wrote
    /\ returned.read = "unreadable"
    /\ Intact(returned.before)
    /\ IsSome(Marker(returned.before))
    /\ Marker(returned.before)[1] > returned.rm[1]
    /\ IsSome(RecordOf(returned.before).last_triggers_unread)
    /\ RecordOf(files[path(returned.kind)]) = MarkerOnly(returned.rm)

====
